---------------------------- MODULE Spec2Model ----------------------------
(***************************************************************************)
(* A model of file-syncer (src/src/lib.rs): the path transformer, the tree *)
(* walk with its per-file transform pipeline, the status classifier, the   *)
(* commit-message builder and the PUSH / PULL flows.                       *)
(*                                                                         *)
(* Text is modelled as a sequence of bytes, each byte a one-token string:  *)
(* an ASCII byte is its character ("a", " ", "\n"), "C3" is a UTF-8 lead   *)
(* byte of a two-byte character, "A9" a continuation byte (<<"C3","A9">>   *)
(* is one character), and "FF" is a byte that occurs in no UTF-8 text (a   *)
(* file name may hold it, a Rust str may not).                             *)
(***************************************************************************)
EXTENDS Integers, Sequences, FiniteSets, TLC

VARIABLES
    relPath,        \* PathTransformer: the relative path handed to compress_relative_path
    storedPath,     \* PathTransformer: Some(compress_relative_path(relPath)), or None
    restoredPath,   \* PathTransformer: Some(decompress_relative_path(storedPath)), or None
    fs,             \* the directory trees, by root: path -> entry
    plan,           \* the transform of each pass to run, in order
    passNo,         \* passes started so far
    passState,      \* "idle", "walking", "ok" (returned Ok) or "failed" (returned Err)
    srcRoot,        \* src_dir of the current pass
    dstRoot,        \* dst_dir of the current pass
    transform,      \* SyncTransform of the current pass
    stack,          \* WalkDir's pending entries, one set per open directory, deepest last
    written,        \* (source path, destination path) of each entry the pass wrote
    statusText,     \* the status report handed to parse_git_status
    stats,          \* Some(FileChangeStats), or None
    message,        \* Some((subject, body)) of generate_commit_message, or None
    config,         \* Config: mode, compress, folder_path, repo_url
    folderExists,   \* whether config.folder_path names an existing directory
    pc,             \* the step of run / push_files / pull_files about to execute
    outcome,        \* "running", or what run returned: "ok" or "err"
    ops,            \* the git commands run so far, and the completed pipeline, in order
    remote,         \* the remote repository: the target branch, the default branch, the pushed commits
    remote0,        \* the remote repository when the invocation started
    scratch,        \* the TempDir: "none", "live" or "removed"
    head,           \* the commit made in the clone: Some([tree, args]), or None
    ssh_key_path,   \* the key path handed to escape_shell_arg / build_git_ssh_command
    escaped,        \* Some(escape_shell_arg(ssh_key_path)), or None
    gitSshCommand   \* Some(build_git_ssh_command(ssh_key_path)), or None

\* Option<T>: None is the empty sequence, Some(v) the one-element sequence <<v>>.
None == <<>>
Some(v) == <<v>>
IsSome(opt) == opt # <<>>
Unwrap(opt) == opt[1]

--------------------------------------------------------------------------
(* Bytes and text *)

LeadByte == "C3"
ContByte == "A9"
InvalidByte == "FF"

\* lib.rs:16  const GZIP_SUFFIX: &str = "-gzipped.txt";
GZIP_SUFFIX == <<"-", "g", "z", "i", "p", "p", "e", "d", ".", "t", "x", "t">>

\* lib.rs:291  OsStr::new(".git")
GIT_DIR == <<".", "g", "i", "t">>

\* The tail of s from (1-based) position i on.
Drop(s, i) == SubSeq(s, i, Len(s))

\* OsStr::to_str succeeds exactly when the bytes are valid UTF-8.
RECURSIVE IsUtf8(_)
IsUtf8(s) ==
    IF s = <<>> THEN TRUE
    ELSE IF Head(s) = InvalidByte \/ Head(s) = ContByte THEN FALSE
    ELSE IF Head(s) = LeadByte
         THEN Len(s) >= 2 /\ s[2] = ContByte /\ IsUtf8(Drop(s, 3))
    ELSE IsUtf8(Tail(s))

\* str::ends_with
EndsWith(s, suffix) ==
    /\ Len(s) >= Len(suffix)
    /\ Drop(s, Len(s) - Len(suffix) + 1) = suffix

\* str::strip_suffix: Some(the text before the suffix), or None.
StripSuffix(s, suffix) ==
    IF EndsWith(s, suffix) THEN Some(SubSeq(s, 1, Len(s) - Len(suffix))) ELSE None

--------------------------------------------------------------------------
(* Paths: a relative path is the sequence of its normal components, each a
   byte sequence; <<>> is the empty path. *)

\* Path::file_name: Some(the last component), or None for the empty path.
file_name(path) == IF path = <<>> THEN None ELSE Some(path[Len(path)])

\* Path::parent of a non-empty path.
parent(path) == SubSeq(path, 1, Len(path) - 1)

\* PathBuf::set_file_name: pop the last component, push the new name; pushing
\* the empty name adds no component.
set_file_name(path, name) ==
    LET base == IF path = <<>> THEN <<>> ELSE parent(path)
    IN  IF name = <<>> THEN base ELSE Append(base, name)

\* rel_path.file_name().and_then(|name| name.to_str())
file_name_str(path) ==
    IF IsSome(file_name(path)) /\ IsUtf8(Unwrap(file_name(path)))
    THEN file_name(path)
    ELSE None

compress_relative_path_Push(rel_path) ==
    LET name == file_name_str(rel_path)
    IN  IF IsSome(name)
        THEN Append(rel_path, Unwrap(name) \o GZIP_SUFFIX)
        ELSE rel_path

compress_relative_path_Guarded(rel_path) ==
    LET name == file_name_str(rel_path)
    IN  IF IsSome(name) /\ ~EndsWith(Unwrap(name), GZIP_SUFFIX)
        THEN set_file_name(rel_path, Unwrap(name) \o GZIP_SUFFIX)
        ELSE rel_path

compress_relative_path(rel_path) ==
    LET name == file_name_str(rel_path)
    IN  IF IsSome(name)
        THEN set_file_name(rel_path, Unwrap(name) \o GZIP_SUFFIX)
        ELSE rel_path

original_file_name(rel_path) ==
    LET name == file_name_str(rel_path)
    IN  IF ~IsSome(name) THEN None
        ELSE LET stripped == StripSuffix(Unwrap(name), GZIP_SUFFIX)
             IN  IF ~IsSome(stripped) THEN None
                 ELSE Some(set_file_name(rel_path, Unwrap(stripped)))

decompress_relative_path(rel_path) ==
    LET original == original_file_name(rel_path)
    IN  IF IsSome(original) THEN Unwrap(original) ELSE rel_path

is_gzipped_file(rel_path) ==
    LET name == file_name_str(rel_path)
    IN  IsSome(name) /\ EndsWith(Unwrap(name), GZIP_SUFFIX)

--------------------------------------------------------------------------
(* parse_git_status.  A str is indexed by byte; slicing it at an offset that
   is not a character boundary panics. *)

\* str::is_char_boundary(i), i a byte offset from 0.
is_char_boundary(s, i) ==
    \/ i = 0
    \/ i = Len(s)
    \/ i < Len(s) /\ s[i + 1] # ContByte

\* str::split('\n'): the pieces between the newlines, at least one.
RECURSIVE split_lines(_, _)
split_lines(s, line) ==
    IF s = <<>> THEN <<line>>
    ELSE IF Head(s) = "\n" THEN <<line>> \o split_lines(Tail(s), <<>>)
    ELSE split_lines(Tail(s), Append(line, Head(s)))

\* str::find: Some(byte offset of the first occurrence), or None.
RECURSIVE find_from(_, _, _)
find_from(s, pat, i) ==
    IF i + Len(pat) > Len(s) THEN None
    ELSE IF SubSeq(s, i + 1, i + Len(pat)) = pat THEN Some(i)
    ELSE find_from(s, pat, i + 1)

find(s, pat) == find_from(s, pat, 0)

RenameArrow == <<" ", "-", ">", " ">>

EmptyStats == [panicked |-> FALSE, added |-> <<>>, modified |-> <<>>, deleted |-> <<>>]

\* lib.rs:418-423: the rename arm.
renamed_to(filename) ==
    LET idx == find(filename, RenameArrow)
    IN  IF IsSome(idx) THEN Drop(filename, Unwrap(idx) + 5) ELSE filename

\* The loop body with "MM" counted once for the index and once for the
\* working directory.
parse_line_TwiceForMM(st, line) ==
    IF st.panicked THEN st
    ELSE IF Len(line) < 3 THEN st
    ELSE IF ~is_char_boundary(line, 2) \/ ~is_char_boundary(line, 3)
         THEN [st EXCEPT !.panicked = TRUE]
    ELSE LET status_code == SubSeq(line, 1, 2)
             filename == Drop(line, 4)
         IN  CASE status_code \in {<<"A", " ">>, <<"?", "?">>} ->
                      [st EXCEPT !.added = Append(@, filename)]
               [] status_code \in {<<"M", " ">>, <<" ", "M">>} ->
                      [st EXCEPT !.modified = Append(@, filename)]
               [] status_code = <<"M", "M">> ->
                      [st EXCEPT !.modified = Append(Append(@, filename), filename)]
               [] status_code \in {<<"D", " ">>, <<" ", "D">>} ->
                      [st EXCEPT !.deleted = Append(@, filename)]
               [] OTHER ->
                      IF status_code[1] = "R"
                      THEN [st EXCEPT !.modified = Append(@, renamed_to(filename))]
                      ELSE st

\* lib.rs:406-425: the loop body for one line.
parse_line(st, line) ==
    IF st.panicked THEN st
    ELSE IF Len(line) < 3 THEN st
    ELSE IF ~is_char_boundary(line, 2) \/ ~is_char_boundary(line, 3)
         THEN [st EXCEPT !.panicked = TRUE]
    ELSE LET status_code == SubSeq(line, 1, 2)
             filename == Drop(line, 4)
         IN  CASE status_code \in {<<"A", " ">>, <<"?", "?">>} ->
                      [st EXCEPT !.added = Append(@, filename)]
               [] status_code \in {<<"M", " ">>, <<" ", "M">>, <<"M", "M">>} ->
                      [st EXCEPT !.modified = Append(@, filename)]
               [] status_code \in {<<"D", " ">>, <<" ", "D">>} ->
                      [st EXCEPT !.deleted = Append(@, filename)]
               [] OTHER ->
                      IF status_code[1] = "R"
                      THEN [st EXCEPT !.modified = Append(@, renamed_to(filename))]
                      ELSE st

RECURSIVE parse_lines(_, _)
parse_lines(lines, st) ==
    IF lines = <<>> THEN st ELSE parse_lines(Tail(lines), parse_line(st, Head(lines)))

parse_git_status(status_output) == parse_lines(split_lines(status_output, <<>>), EmptyStats)

--------------------------------------------------------------------------
(* generate_commit_message *)

DigitChars == <<"0", "1", "2", "3", "4", "5", "6", "7", "8", "9">>

\* format!("{n}") of a usize.
RECURSIVE to_decimal(_)
to_decimal(n) ==
    IF n < 10 THEN <<DigitChars[n + 1]>>
    ELSE Append(to_decimal(n \div 10), DigitChars[(n % 10) + 1])

\* [String]::join
RECURSIVE join(_, _)
join(parts, sep) ==
    IF parts = <<>> THEN <<>>
    ELSE IF Len(parts) = 1 THEN parts[1]
    ELSE parts[1] \o sep \o join(Tail(parts), sep)

WhiteSpace == {" ", "\t", "\n", "\r"}

RECURSIVE trim_start(_)
trim_start(s) == IF s # <<>> /\ Head(s) \in WhiteSpace THEN trim_start(Tail(s)) ELSE s

RECURSIVE trim_end(_)
trim_end(s) ==
    IF s # <<>> /\ s[Len(s)] \in WhiteSpace THEN trim_end(SubSeq(s, 1, Len(s) - 1)) ELSE s

\* str::trim
trim(s) == trim_end(trim_start(s))

TxtSync == <<"S", "y", "n", "c", " ">>
TxtFile == <<" ", "f", "i", "l", "e">>
TxtAdded == <<" ", "a", "d", "d", "e", "d">>
TxtModified == <<" ", "m", "o", "d", "i", "f", "i", "e", "d">>
TxtDeleted == <<" ", "d", "e", "l", "e", "t", "e", "d">>
TxtAddedFiles == <<"A", "d", "d", "e", "d", " ", "f", "i", "l", "e", "s", ":", "\n">>
TxtModifiedFiles == <<"M", "o", "d", "i", "f", "i", "e", "d", " ", "f", "i", "l", "e", "s", ":", "\n">>
TxtDeletedFiles == <<"D", "e", "l", "e", "t", "e", "d", " ", "f", "i", "l", "e", "s", ":", "\n">>

\* lib.rs:432-457
subject_of_PluralAtOne(st) ==
    LET total_changes == Len(st.added) + Len(st.modified) + Len(st.deleted)
        parts == (IF st.added # <<>> THEN <<to_decimal(Len(st.added)) \o TxtAdded>> ELSE <<>>)
              \o (IF st.modified # <<>> THEN <<to_decimal(Len(st.modified)) \o TxtModified>> ELSE <<>>)
              \o (IF st.deleted # <<>> THEN <<to_decimal(Len(st.deleted)) \o TxtDeleted>> ELSE <<>>)
    IN  TxtSync \o to_decimal(total_changes) \o TxtFile
            \o (IF total_changes > 1 THEN <<"s">> ELSE <<>>)
            \o (IF parts # <<>> THEN <<" ", "(">> \o join(parts, <<",", " ">>) \o <<")">> ELSE <<>>)

subject_of(st) ==
    LET total_changes == Len(st.added) + Len(st.modified) + Len(st.deleted)
        parts == (IF st.added # <<>> THEN <<to_decimal(Len(st.added)) \o TxtAdded>> ELSE <<>>)
              \o (IF st.modified # <<>> THEN <<to_decimal(Len(st.modified)) \o TxtModified>> ELSE <<>>)
              \o (IF st.deleted # <<>> THEN <<to_decimal(Len(st.deleted)) \o TxtDeleted>> ELSE <<>>)
    IN  TxtSync \o to_decimal(total_changes) \o TxtFile
            \o (IF total_changes # 1 THEN <<"s">> ELSE <<>>)
            \o (IF parts # <<>> THEN <<" ", "(">> \o join(parts, <<",", " ">>) \o <<")">> ELSE <<>>)

\* for file in &list { body.push_str(&format!("  <mark> {file}\n")) }
RECURSIVE file_lines(_, _)
file_lines(files, mark) ==
    IF files = <<>> THEN <<>>
    ELSE <<" ", " ", mark, " ">> \o Head(files) \o <<"\n">> \o file_lines(Tail(files), mark)

\* lib.rs:459-494
body_of(st) ==
    LET added == IF st.added # <<>> THEN TxtAddedFiles \o file_lines(st.added, "+") ELSE <<>>
        first1 == st.added = <<>>
        modified == IF st.modified # <<>>
                    THEN (IF ~first1 THEN <<"\n">> ELSE <<>>)
                            \o TxtModifiedFiles \o file_lines(st.modified, "~")
                    ELSE <<>>
        first2 == first1 /\ st.modified = <<>>
        deleted == IF st.deleted # <<>>
                   THEN (IF ~first2 THEN <<"\n">> ELSE <<>>)
                            \o TxtDeletedFiles \o file_lines(st.deleted, "-")
                   ELSE <<>>
    IN  trim(added \o modified \o deleted)

generate_commit_message(st) == [subject |-> subject_of(st), body |-> body_of(st)]

--------------------------------------------------------------------------
(* Bounds of the path inputs *)

MaxStemLen == 2
MaxSuffixes == 2
MaxDirs == 1

\* Bytes a file-name stem is drawn from: ASCII, the two halves of a two-byte
\* character, and a byte that is not UTF-8.
StemBytes == {"a", LeadByte, ContByte, InvalidByte}

RECURSIVE SeqsUpTo(_, _)
SeqsUpTo(S, n) ==
    IF n = 0 THEN {<<>>}
    ELSE LET shorter == SeqsUpTo(S, n - 1)
         IN  shorter \cup {Append(q, x) : q \in shorter, x \in S}

RECURSIVE Repeat(_, _)
Repeat(s, k) == IF k = 0 THEN <<>> ELSE s \o Repeat(s, k - 1)

\* Name endings: k copies of the suffix, and two near misses of it.
NameTails ==
    {Repeat(GZIP_SUFFIX, k) : k \in 0..MaxSuffixes}
        \cup {Tail(GZIP_SUFFIX), SubSeq(GZIP_SUFFIX, 1, Len(GZIP_SUFFIX) - 1)}

FileNames == {stem \o tl : stem \in SeqsUpTo(StemBytes, MaxStemLen), tl \in NameTails} \ {<<>>}

DirNames == {<<"d">>, GIT_DIR, <<"d">> \o GZIP_SUFFIX}

PathInputs ==
    {<<>>} \cup {dirs \o <<name>> : dirs \in SeqsUpTo(DirNames, MaxDirs), name \in FileNames}

--------------------------------------------------------------------------
(* File contents and the gzip codec.  A file's content is a sequence of
   bytes (small numbers here).  flate2's gzip stream is modelled by its
   framing: a two-byte magic header, the payload, and a one-byte checksum
   of the payload standing for the CRC32/ISIZE trailer; the decoder rejects
   anything that is not so framed. *)

RECURSIVE Checksum(_)
Checksum(bytes) == IF bytes = <<>> THEN 0 ELSE (Head(bytes) + Checksum(Tail(bytes))) % 256

\* GzEncoder::new(dst_file, Compression::best()); io::copy; encoder.finish()
GzEncode(bytes) == <<31, 139>> \o bytes \o <<Checksum(bytes)>>

\* GzDecoder::new(src_file); io::copy: Some(payload), or None for a read error.
GzDecode(bytes) ==
    IF /\ Len(bytes) >= 3
       /\ bytes[1] = 31
       /\ bytes[2] = 139
       /\ bytes[Len(bytes)] = Checksum(SubSeq(bytes, 3, Len(bytes) - 1))
    THEN Some(SubSeq(bytes, 3, Len(bytes) - 1))
    ELSE None

--------------------------------------------------------------------------
(* Directory trees: a function from relative path to entry; the root <<>>
   is always a directory, and every entry's parent is a directory. *)

Dir == [kind |-> "dir", data |-> <<>>]
File(bytes) == [kind |-> "file", data |-> bytes]

EmptyTree == (<<>> :> Dir)

Exists(tree, path) == path \in DOMAIN tree
IsDir(tree, path) == Exists(tree, path) /\ tree[path].kind = "dir"
IsFile(tree, path) == Exists(tree, path) /\ tree[path].kind = "file"

Put(tree, path, entry) == (path :> entry) @@ tree

Prefixes(path) == {SubSeq(path, 1, k) : k \in 0..Len(path)}

\* The entries WalkDir lists in a directory.
Children(tree, dir) ==
    {q \in DOMAIN tree : Len(q) = Len(dir) + 1 /\ SubSeq(q, 1, Len(dir)) = dir}

\* dst.parent() of dst_dir.join(target): the directory that holds the target
\* (for the empty target, dst_dir's own parent, which exists).
ParentOrRoot(path) == IF path = <<>> THEN <<>> ELSE parent(path)

\* fs::create_dir_all: fails when the path or one of its ancestors is a file,
\* else makes every missing directory on the way.
create_dir_all(tree, path) ==
    IF \E q \in Prefixes(path) : IsFile(tree, q)
    THEN [ok |-> FALSE, tree |-> tree]
    ELSE [ok |-> TRUE,
          tree |-> [q \in DOMAIN tree \cup Prefixes(path) |->
                        IF q \in DOMAIN tree THEN tree[q] ELSE Dir]]

\* File::create: fails on a directory, else the file exists and is empty.
file_create(tree, path) ==
    IF IsDir(tree, path) THEN [ok |-> FALSE, tree |-> tree]
    ELSE [ok |-> TRUE, tree |-> Put(tree, path, File(<<>>))]

\* What one of copy_file / compress_file / decompress_file leaves behind:
\* parents made, destination created, then filled with `bytes`; `bytes` is
\* None when the stream fails after the destination was created.
write_file(tree, dst, bytes) ==
    LET made == create_dir_all(tree, ParentOrRoot(dst))
    IN  IF ~made.ok THEN made
        ELSE LET created == file_create(made.tree, dst)
             IN  IF ~created.ok THEN created
                 ELSE IF ~IsSome(bytes) THEN [ok |-> FALSE, tree |-> created.tree]
                 ELSE [ok |-> TRUE, tree |-> Put(created.tree, dst, File(Unwrap(bytes)))]

copy_file(tree, dst, srcBytes) == write_file(tree, dst, Some(srcBytes))

compress_file(tree, dst, srcBytes) == write_file(tree, dst, Some(GzEncode(srcBytes)))

decompress_file(tree, dst, srcBytes) == write_file(tree, dst, GzDecode(srcBytes))

--------------------------------------------------------------------------
(* sync_files_with_transform *)

Transforms == {"None", "Compress", "Decompress"}

\* The first-component test of lib.rs:290-291.
first_component_is_git_Anywhere(rel_path) ==
    \E i \in 1..Len(rel_path) : rel_path[i] = GIT_DIR

first_component_is_git(rel_path) ==
    rel_path # <<>> /\ rel_path[1] = GIT_DIR

\* lib.rs:305-309
target_rel(rel_path, mode) ==
    CASE mode = "Compress" -> compress_relative_path(rel_path)
      [] mode = "Decompress" -> decompress_relative_path(rel_path)
      [] OTHER -> rel_path

\* The file branch made to move: after a transformed write the destination
\* file under the source's own name is removed.
sync_file_Moving(tree, rel_path, srcBytes, mode) ==
    LET dst_path == target_rel(rel_path, mode)
        done == IF mode = "Compress" THEN compress_file(tree, dst_path, srcBytes)
                ELSE IF mode = "Decompress" /\ is_gzipped_file(rel_path)
                     THEN decompress_file(tree, dst_path, srcBytes)
                ELSE copy_file(tree, dst_path, srcBytes)
    IN  IF done.ok /\ dst_path # rel_path /\ IsFile(done.tree, rel_path)
        THEN [ok |-> TRUE,
              tree |-> [q \in DOMAIN done.tree \ {rel_path} |-> done.tree[q]]]
        ELSE done

\* lib.rs:310-317: the file branch of the loop body.
sync_file(tree, rel_path, srcBytes, mode) ==
    LET dst_path == target_rel(rel_path, mode)
    IN  IF mode = "Compress" THEN compress_file(tree, dst_path, srcBytes)
        ELSE IF mode = "Decompress" /\ is_gzipped_file(rel_path)
             THEN decompress_file(tree, dst_path, srcBytes)
        ELSE copy_file(tree, dst_path, srcBytes)

\* Frames of the walk, with the exhausted ones on top dropped.
RECURSIVE DropEmpty(_)
DropEmpty(frames) ==
    IF frames # <<>> /\ frames[Len(frames)] = {}
    THEN DropEmpty(SubSeq(frames, 1, Len(frames) - 1))
    ELSE frames

\* WalkDir after yielding `rel`: the entry leaves its frame; a directory that
\* is not skipped opens a frame with its children.
Advance(frames, rel, descend) ==
    LET top == frames[Len(frames)]
        rest == [frames EXCEPT ![Len(frames)] = top \ {rel}]
    IN  DropEmpty(IF descend THEN Append(rest, Children(fs[srcRoot], rel)) ELSE rest)

RootOrder == <<"source", "stored", "restored">>
Roots == {"source", "stored", "restored"}

\* The call of sync_files_with_transform(src_dir, dst_dir, transform).
StartPass ==
    /\ passState \in {"idle", "ok"}
    /\ passNo < Len(plan)
    /\ passNo' = passNo + 1
    /\ srcRoot' = RootOrder[passNo + 1]
    /\ dstRoot' = RootOrder[passNo + 2]
    /\ transform' = plan[passNo + 1]
    /\ stack' = <<{<<>>}>>
    /\ written' = {}
    /\ passState' = "walking"
    /\ UNCHANGED <<fs, plan>>

\* One iteration of the loop whose entry is skipped: the root itself
\* (lib.rs:286-288) or an entry under the top-level .git (lib.rs:290-297).
SkipEntry ==
    /\ passState = "walking"
    /\ stack # <<>>
    /\ \E rel \in stack[Len(stack)] :
          /\ rel = <<>> \/ first_component_is_git(rel)
          /\ stack' = Advance(stack, rel, rel = <<>>)
    /\ UNCHANGED <<fs, plan, passNo, passState, srcRoot, dstRoot, transform, written>>

\* One iteration on a directory: lib.rs:300-303.
SyncDir ==
    /\ passState = "walking"
    /\ stack # <<>>
    /\ \E rel \in stack[Len(stack)] :
          /\ rel # <<>>
          /\ ~first_component_is_git(rel)
          /\ IsDir(fs[srcRoot], rel)
          /\ LET made == create_dir_all(fs[dstRoot], rel)
             IN  /\ fs' = [fs EXCEPT ![dstRoot] = made.tree]
                 /\ IF made.ok
                    THEN /\ written' = written \cup {[from |-> rel, to |-> rel]}
                         /\ stack' = Advance(stack, rel, TRUE)
                         /\ passState' = passState
                    ELSE /\ passState' = "failed"
                         /\ UNCHANGED <<written, stack>>
    /\ UNCHANGED <<plan, passNo, srcRoot, dstRoot, transform>>

\* One iteration on a file: lib.rs:304-318.
SyncFile ==
    /\ passState = "walking"
    /\ stack # <<>>
    /\ \E rel \in stack[Len(stack)] :
          /\ rel # <<>>
          /\ ~first_component_is_git(rel)
          /\ IsFile(fs[srcRoot], rel)
          /\ LET done == sync_file(fs[dstRoot], rel, fs[srcRoot][rel].data, transform)
             IN  /\ fs' = [fs EXCEPT ![dstRoot] = done.tree]
                 /\ IF done.ok
                    THEN /\ written' = written \cup
                                {[from |-> rel, to |-> target_rel(rel, transform)]}
                         /\ stack' = Advance(stack, rel, FALSE)
                         /\ passState' = passState
                    ELSE /\ passState' = "failed"
                         /\ UNCHANGED <<written, stack>>
    /\ UNCHANGED <<plan, passNo, srcRoot, dstRoot, transform>>

\* An I/O error of the environment inside an iteration (`entry?`,
\* entry.metadata()?, File::open, set_permissions, a failing read or write):
\* the `?` returns it.  A write that fails midway leaves the destination
\* file created and empty.
SyncIoError ==
    /\ passState = "walking"
    /\ stack # <<>>
    /\ \E rel \in stack[Len(stack)], partial \in BOOLEAN :
          /\ rel # <<>>
          /\ ~first_component_is_git(rel)
          /\ IF partial /\ IsFile(fs[srcRoot], rel)
             THEN LET dst == target_rel(rel, transform)
                      made == create_dir_all(fs[dstRoot], ParentOrRoot(dst))
                      created == file_create(made.tree, dst)
                  IN  /\ made.ok /\ created.ok
                      /\ fs' = [fs EXCEPT ![dstRoot] = created.tree]
             ELSE /\ ~partial
                  /\ UNCHANGED fs
    /\ passState' = "failed"
    /\ UNCHANGED <<plan, passNo, srcRoot, dstRoot, transform, stack, written>>

\* entries.next() returns None: Ok(()) (lib.rs:321).
FinishPass ==
    /\ passState = "walking"
    /\ stack = <<>>
    /\ passState' = "ok"
    /\ UNCHANGED <<fs, plan, passNo, srcRoot, dstRoot, transform, stack, written>>

--------------------------------------------------------------------------
(* Bounds and inputs of the passes *)

MaxEntries == 3

\* Names of the entries: a plain name, a name that carries the suffix, the
\* metadata directory's name, and a name that is not UTF-8.
EntryNames == {<<"a">>, <<"a">> \o GZIP_SUFFIX, GIT_DIR, <<InvalidByte>> \o GZIP_SUFFIX}

PlainBytes == <<1>>
OtherBytes == <<2>>

SourceEntries == {Dir, File(PlainBytes), File(GzEncode(PlainBytes))}

\* The trees a tree grows into by one more entry, named from EntryNames.
Grow(t, entries) ==
    {Put(t, slot, e) :
        slot \in {d \o <<nm>> : d \in {q \in DOMAIN t : t[q].kind = "dir"}, nm \in EntryNames}
                    \ DOMAIN t,
        e \in entries}

\* The trees with at most n entries.
RECURSIVE TreesUpTo(_, _)
TreesUpTo(n, entries) ==
    IF n = 0 THEN {EmptyTree}
    ELSE LET smaller == TreesUpTo(n - 1, entries)
         IN  smaller \cup UNION {Grow(t, entries) : t \in smaller}

SourceTrees == TreesUpTo(MaxEntries, SourceEntries)

--------------------------------------------------------------------------
(* The path transformer applied to one path: compress, then decompress. *)

vars == <<relPath, storedPath, restoredPath,
          fs, plan, passNo, passState, srcRoot, dstRoot, transform, stack, written,
          statusText, stats, message,
          config, folderExists, pc, outcome, ops, remote, remote0, scratch, head,
          ssh_key_path, escaped, gitSshCommand>>

pathVars == <<relPath, storedPath, restoredPath>>
syncVars == <<fs, plan, passNo, passState, srcRoot, dstRoot, transform, stack, written>>

IdlePath ==
    /\ relPath = <<>>
    /\ storedPath = None
    /\ restoredPath = None

statusVars == <<statusText, stats, message>>

IdleStatus ==
    /\ statusText = <<>>
    /\ stats = None
    /\ message = None

flowVars == <<config, folderExists, pc, outcome, ops, remote, remote0, scratch, head>>

escapeVars == <<ssh_key_path, escaped, gitSshCommand>>

IdleEscape ==
    /\ ssh_key_path = <<>>
    /\ escaped = None
    /\ gitSshCommand = None

\* No invocation of run.
IdleFlow ==
    /\ config = [mode |-> "Push", compress |-> FALSE, folder_path |-> <<>>, repo_url |-> <<>>]
    /\ folderExists = FALSE
    /\ pc = "idle"
    /\ outcome = "running"
    /\ ops = <<>>
    /\ remote = [branch |-> None, default |-> EmptyTree, log |-> <<>>]
    /\ remote0 = remote
    /\ scratch = "none"
    /\ head = None

IdleSync ==
    /\ fs = [r \in Roots |-> EmptyTree]
    /\ plan = <<>>
    /\ passNo = 0
    /\ passState = "idle"
    /\ srcRoot = "source"
    /\ dstRoot = "stored"
    /\ transform = "None"
    /\ stack = <<>>
    /\ written = {}


InitPath ==
    /\ relPath \in PathInputs
    /\ storedPath = None
    /\ restoredPath = None
    /\ IdleSync
    /\ IdleStatus
    /\ IdleFlow
    /\ IdleEscape

CompressPath ==
    /\ storedPath = None
    /\ storedPath' = Some(compress_relative_path(relPath))
    /\ UNCHANGED <<relPath, restoredPath, syncVars, statusVars, flowVars, escapeVars>>

DecompressPath ==
    /\ IsSome(storedPath)
    /\ restoredPath = None
    /\ restoredPath' = Some(decompress_relative_path(Unwrap(storedPath)))
    /\ UNCHANGED <<relPath, storedPath, syncVars, statusVars, flowVars, escapeVars>>

NextPath == CompressPath \/ DecompressPath

SpecPath == InitPath /\ [][NextPath]_vars

--------------------------------------------------------------------------
(* One pass from a source tree into a destination tree, under each mode. *)

InitSync ==
    /\ IdlePath
    /\ IdleEscape
    /\ IdleStatus
    /\ IdleFlow
    /\ \E s \in SourceTrees :
          fs = [r \in Roots |-> IF r = "source" THEN s ELSE EmptyTree]
    /\ plan \in {<<m>> : m \in Transforms}
    /\ passNo = 0
    /\ passState = "idle"
    /\ srcRoot = "source"
    /\ dstRoot = "stored"
    /\ transform = "None"
    /\ stack = <<>>
    /\ written = {}

NextSync ==
    \/ (StartPass /\ UNCHANGED <<pathVars, escapeVars, statusVars, flowVars>>)
    \/ (SkipEntry /\ UNCHANGED <<pathVars, escapeVars, statusVars, flowVars>>)
    \/ (SyncDir /\ UNCHANGED <<pathVars, escapeVars, statusVars, flowVars>>)
    \/ (SyncFile /\ UNCHANGED <<pathVars, escapeVars, statusVars, flowVars>>)
    \/ (SyncIoError /\ UNCHANGED <<pathVars, escapeVars, statusVars, flowVars>>)
    \/ (FinishPass /\ UNCHANGED <<pathVars, escapeVars, statusVars, flowVars>>)

SpecSync == InitSync /\ [][NextSync]_vars

--------------------------------------------------------------------------
(* A Compress pass into an empty directory, then a Decompress pass from it
   into another empty directory (sync_files_can_compress_and_decompress). *)

InitRoundTrip ==
    /\ IdlePath
    /\ IdleEscape
    /\ IdleStatus
    /\ IdleFlow
    /\ \E s \in SourceTrees :
          fs = [r \in Roots |-> IF r = "source" THEN s ELSE EmptyTree]
    /\ plan = <<"Compress", "Decompress">>
    /\ passNo = 0
    /\ passState = "idle"
    /\ srcRoot = "source"
    /\ dstRoot = "stored"
    /\ transform = "None"
    /\ stack = <<>>
    /\ written = {}

SpecRoundTrip == InitRoundTrip /\ [][NextSync]_vars

--------------------------------------------------------------------------
(* Bounds and inputs of the classifier and the message builder *)

MaxLines == 2
MaxListPad == 2

StatusCodes ==
    {<<"A", " ">>, <<"?", "?">>, <<"M", " ">>, <<" ", "M">>, <<"M", "M">>,
     <<"D", " ">>, <<" ", "D">>, <<"R", " ">>, <<"R", "M">>, <<"A", "M">>, <<"!", "!">>}

StatusPaths ==
    {<<"a">>,
     <<"a", " ", "-", ">", " ", "b", " ", "-", ">", " ", "a">>,
     <<LeadByte, ContByte>>}

\* Lines of no porcelain shape: short ones, one whose third byte is no
\* separator, and ones with a two-byte character among the first bytes.
OddLines ==
    {<<>>, <<"A">>, <<"A", " ">>, <<"?", "?", " ">>, <<"?", "?", "x", "a">>,
     <<"a", LeadByte, ContByte>>, <<LeadByte, ContByte, "a">>,
     <<"A", " ", LeadByte, ContByte>>}

StatusLines == {code \o <<" ">> \o path : code \in StatusCodes, path \in StatusPaths} \cup OddLines

RECURSIVE LineSeqsUpTo(_)
LineSeqsUpTo(n) ==
    IF n = 0 THEN {<<>>}
    ELSE LET shorter == LineSeqsUpTo(n - 1)
         IN  shorter \cup {Append(q, l) : q \in shorter, l \in StatusLines}

StatusReports == {join(ls, <<"\n">>) : ls \in LineSeqsUpTo(MaxLines)}

\* Paths of a FileChangeStats: a plain one and one that ends with a space.
MessagePaths == {<<"a">>, <<"b", " ">>}

\* Lists of paths: any list of up to two paths, behind up to MaxListPad
\* more entries.
PathLists ==
    {Repeat(<<(<<"a">>)>>, k) \o ending :
        k \in 0..MaxListPad, ending \in SeqsUpTo(MessagePaths, 2)}

ChangeRecords ==
    {[panicked |-> FALSE, added |-> a, modified |-> m, deleted |-> d] :
        a \in PathLists, m \in PathLists, d \in PathLists}

--------------------------------------------------------------------------
(* The classifier and the message builder as push_files chains them
   (lib.rs:181-182), and the builder alone on any FileChangeStats. *)

ParseStatus ==
    /\ stats = None
    /\ stats' = Some(parse_git_status(statusText))
    /\ UNCHANGED <<statusText, message, pathVars, syncVars, flowVars, escapeVars>>

\* A panic in parse_git_status unwinds: no message is built.
BuildMessage ==
    /\ IsSome(stats)
    /\ ~Unwrap(stats).panicked
    /\ message = None
    /\ message' = Some(generate_commit_message(Unwrap(stats)))
    /\ UNCHANGED <<statusText, stats, pathVars, syncVars, flowVars, escapeVars>>

InitStatus ==
    /\ IdlePath
    /\ IdleEscape
    /\ IdleSync
    /\ IdleFlow
    /\ statusText \in StatusReports
    /\ stats = None
    /\ message = None

NextStatus == ParseStatus \/ BuildMessage

SpecStatus == InitStatus /\ [][NextStatus]_vars

InitMessage ==
    /\ IdlePath
    /\ IdleEscape
    /\ IdleSync
    /\ IdleFlow
    /\ statusText = <<>>
    /\ stats \in {Some(r) : r \in ChangeRecords}
    /\ message = None

NextMessage == BuildMessage

SpecMessage == InitMessage /\ [][NextMessage]_vars

--------------------------------------------------------------------------
(* run, push_files and pull_files.  The local folder is the root "source"
   in a PUSH and the root "restored" in a PULL; the root "stored" is the
   scratch clone.  Every git command is one step whose result the remote
   and the environment decide. *)

MaxFlowEntries == 2

FlowLocalTrees == TreesUpTo(MaxFlowEntries, {Dir, File(PlainBytes)})

\* What a branch of the remote holds: a plain file, or a compressed one.
FlowRemoteTrees ==
    {Put(EmptyTree, <<(<<"r">>)>>, File(OtherBytes)),
     Put(EmptyTree, <<(<<"a">> \o GZIP_SUFFIX)>>, File(GzEncode(OtherBytes)))}

FlowRemotes ==
    {[branch |-> b, default |-> Put(EmptyTree, <<(<<"r">>)>>, File(OtherBytes)), log |-> <<>>] :
        b \in {None} \cup {Some(t) : t \in FlowRemoteTrees}}

FlowConfigs ==
    [mode : {"Push", "Pull"}, compress : BOOLEAN,
     folder_path : {<<>>, <<"d">>}, repo_url : {<<>>, <<" ">>, <<"u">>}]

\* What `git status --porcelain` prints: nothing for a clean working
\* directory, else one line "XY path" per changed entry; here an untracked
\* file, a modified and a deleted file, a line whose code the classifier
\* ignores.
FlowReports ==
    {<<>>,
     <<"?", "?", " ", "a", "\n">>,
     <<" ", "M", " ", "a", "\n", "D", " ", " ", "b", "\n">>,
     <<"A", "M", " ", "a", "\n">>}

LocalRoot(cfg) == IF cfg.mode = "Push" THEN "source" ELSE "restored"

\* The working directory of a fresh clone: the branch's files beside .git.
CloneTree(t) == Put(Put(t, <<GIT_DIR>>, Dir), <<GIT_DIR, <<"a">>>>, File(OtherBytes))

\* The files `git add -A` stages: everything outside .git.
WorkTree(t) == [q \in {q \in DOMAIN t : q = <<>> \/ q[1] # GIT_DIR} |-> t[q]]

Op(name, result, args) == [op |-> name, result |-> result, args |-> args]

\* A return that leaves the scratch directory behind.
Return_KeepScratch(result) ==
    /\ pc' = "done"
    /\ outcome' = result
    /\ UNCHANGED <<scratch, fs>>

\* The function returns: temp_dir goes out of scope and its Drop removes
\* the scratch directory.
Return(result) ==
    /\ pc' = "done"
    /\ outcome' = result
    /\ scratch' = IF scratch = "live" THEN "removed" ELSE scratch
    /\ fs' = IF scratch = "live" THEN [fs EXCEPT !["stored"] = EmptyTree] ELSE fs

passVars == <<plan, passNo, passState, srcRoot, dstRoot, transform, stack, written>>

\* validate_config without the test of the folder path.
validate_config_UrlOnly(cfg) ==
    IF trim(cfg.repo_url) = <<>> THEN "err" ELSE "ok"

\* validate_config (lib.rs:46-60): every Mode is accepted.
validate_config(cfg) ==
    IF cfg.folder_path = <<>> THEN "err"
    ELSE IF trim(cfg.repo_url) = <<>> THEN "err"
    ELSE "ok"

\* run: validate_config, then the flow of the mode (lib.rs:62-81).
Run ==
    /\ pc = "run"
    /\ IF validate_config(config) = "err"
       THEN Return("err")
       ELSE /\ pc' = IF config.mode = "Push" THEN "push_resolve" ELSE "pull_prepare"
            /\ UNCHANGED <<outcome, scratch, fs>>
    /\ UNCHANGED <<pathVars, escapeVars, passVars, statusVars, config, folderExists, ops,
                   remote, remote0, head>>

\* fs::canonicalize and the existence test (lib.rs:102-111).
PushResolve ==
    /\ pc = "push_resolve"
    /\ IF folderExists
       THEN /\ pc' = "tempdir"
            /\ UNCHANGED <<outcome, scratch, fs>>
       ELSE Return("err")
    /\ UNCHANGED <<pathVars, escapeVars, passVars, statusVars, config, folderExists, ops,
                   remote, remote0, head>>

\* The absolute path and fs::create_dir_all (lib.rs:218-227).
PullPrepare ==
    /\ pc = "pull_prepare"
    /\ \E ok \in BOOLEAN :
          IF ok
          THEN /\ folderExists' = TRUE
               /\ pc' = "tempdir"
               /\ UNCHANGED <<outcome, scratch, fs>>
          ELSE /\ Return("err")
               /\ UNCHANGED folderExists
    /\ UNCHANGED <<pathVars, escapeVars, passVars, statusVars, config, ops, remote, remote0, head>>

\* tempfile::tempdir (lib.rs:113, 229).
MakeTempDir ==
    /\ pc = "tempdir"
    /\ \E ok \in BOOLEAN :
          IF ok
          THEN /\ scratch' = "live"
               /\ pc' = IF config.mode = "Push" THEN "push_clone" ELSE "pull_clone"
               /\ UNCHANGED <<outcome, fs>>
          ELSE Return("err")
    /\ UNCHANGED <<pathVars, escapeVars, passVars, statusVars, config, folderExists, ops,
                   remote, remote0, head>>

\* The results `git clone --branch` can have against the remote.
CloneBranchResults ==
    {"error"} \cup (IF IsSome(remote.branch) THEN {"ok"} ELSE {"not_found"})

\* git clone --branch in push_files: any Err takes the fallback
\* (lib.rs:121-127).
PushCloneBranch ==
    /\ pc = "push_clone"
    /\ \E result \in CloneBranchResults :
          /\ ops' = Append(ops, Op("clone_branch", result, <<>>))
          /\ IF result = "ok"
             THEN /\ fs' = [fs EXCEPT !["stored"] = CloneTree(Unwrap(remote.branch))]
                  /\ pc' = "push_sync"
             ELSE /\ pc' = "push_clone_default"
                  /\ UNCHANGED fs
    /\ UNCHANGED <<pathVars, escapeVars, passVars, statusVars, config, folderExists, outcome,
                   remote, remote0, scratch, head>>

\* git clone of the default branch (lib.rs:128-134).
PushCloneDefault ==
    /\ pc = "push_clone_default"
    /\ \E result \in {"ok", "error"} :
          /\ ops' = Append(ops, Op("clone_default", result, <<>>))
          /\ IF result = "ok"
             THEN /\ fs' = [fs EXCEPT !["stored"] = CloneTree(remote.default)]
                  /\ pc' = "push_create_branch"
                  /\ UNCHANGED <<outcome, scratch>>
             ELSE Return("err")
    /\ UNCHANGED <<pathVars, escapeVars, passVars, statusVars, config, folderExists,
                   remote, remote0, head>>

\* git checkout -b (lib.rs:136-142).
PushCreateBranch ==
    /\ pc = "push_create_branch"
    /\ \E result \in {"ok", "error"} :
          /\ ops' = Append(ops, Op("create_branch", result, <<>>))
          /\ IF result = "ok"
             THEN /\ pc' = "push_sync"
                  /\ UNCHANGED <<outcome, scratch, fs>>
             ELSE Return("err")
    /\ UNCHANGED <<pathVars, escapeVars, passVars, statusVars, config, folderExists,
                   remote, remote0, head>>

\* pull_files with the Err of the clone dropped instead of returned.
PullCloneBranch_Continue ==
    /\ pc = "pull_clone"
    /\ \E result \in CloneBranchResults :
          /\ ops' = Append(ops, Op("clone_branch", result, <<>>))
          /\ fs' = IF result = "ok"
                   THEN [fs EXCEPT !["stored"] = CloneTree(Unwrap(remote.branch))]
                   ELSE fs
          /\ pc' = "pull_sync"
          /\ UNCHANGED <<outcome, scratch>>
    /\ UNCHANGED <<pathVars, escapeVars, passVars, statusVars, config, folderExists,
                   remote, remote0, head>>

\* git clone --branch in pull_files: an Err is returned (lib.rs:236-242).
PullCloneBranch ==
    /\ pc = "pull_clone"
    /\ \E result \in CloneBranchResults :
          /\ ops' = Append(ops, Op("clone_branch", result, <<>>))
          /\ IF result = "ok"
             THEN /\ fs' = [fs EXCEPT !["stored"] = CloneTree(Unwrap(remote.branch))]
                  /\ pc' = "pull_sync"
                  /\ UNCHANGED <<outcome, scratch>>
             ELSE Return("err")
    /\ UNCHANGED <<pathVars, escapeVars, passVars, statusVars, config, folderExists,
                   remote, remote0, head>>

\* The call of sync_files_with_transform: local folder into the clone in
\* push_files (lib.rs:145-157), clone into the local folder in pull_files
\* (lib.rs:244-256).
StartSync ==
    /\ pc \in {"push_sync", "pull_sync"}
    /\ srcRoot' = IF pc = "push_sync" THEN "source" ELSE "stored"
    /\ dstRoot' = IF pc = "push_sync" THEN "stored" ELSE "restored"
    /\ transform' = IF ~config.compress THEN "None"
                    ELSE IF pc = "push_sync" THEN "Compress" ELSE "Decompress"
    /\ stack' = <<{<<>>}>>
    /\ written' = {}
    /\ passState' = "walking"
    /\ pc' = IF pc = "push_sync" THEN "push_syncing" ELSE "pull_syncing"
    /\ UNCHANGED <<pathVars, escapeVars, statusVars, fs, plan, passNo, config, folderExists,
                   outcome, ops, remote, remote0, scratch, head>>

\* sync_files_with_transform returned to push_files (lib.rs:157).
PushSyncDone ==
    /\ pc = "push_syncing"
    /\ passState \in {"ok", "failed"}
    /\ IF passState = "ok"
       THEN /\ ops' = Append(ops, Op("sync", "ok", <<>>))
            /\ pc' = "push_status"
            /\ UNCHANGED <<outcome, scratch, fs>>
       ELSE /\ Return("err")
            /\ UNCHANGED ops
    /\ UNCHANGED <<pathVars, escapeVars, passVars, statusVars, config, folderExists,
                   remote, remote0, head>>

\* sync_files_with_transform returned to pull_files (lib.rs:256-259).
PullSyncDone ==
    /\ pc = "pull_syncing"
    /\ passState \in {"ok", "failed"}
    /\ ops' = IF passState = "ok" THEN Append(ops, Op("sync", "ok", <<>>)) ELSE ops
    /\ Return(IF passState = "ok" THEN "ok" ELSE "err")
    /\ UNCHANGED <<pathVars, escapeVars, passVars, statusVars, config, folderExists,
                   remote, remote0, head>>

\* push_files without the early return on a blank report.
PushStatus_NoEarlyReturn ==
    /\ pc = "push_status"
    /\ \/ \E report \in FlowReports :
             /\ ops' = Append(ops, Op("status", "ok", <<>>))
             /\ statusText' = report
             /\ pc' = "push_stage"
             /\ UNCHANGED <<outcome, scratch, fs>>
       \/ /\ ops' = Append(ops, Op("status", "error", <<>>))
          /\ Return("err")
          /\ UNCHANGED statusText
    /\ UNCHANGED <<pathVars, escapeVars, passVars, stats, message, config, folderExists,
                   remote, remote0, head>>

\* git status --porcelain; a blank report ends the PUSH (lib.rs:159-170).
PushStatus ==
    /\ pc = "push_status"
    /\ \/ \E report \in FlowReports :
             /\ ops' = Append(ops, Op("status", "ok", <<>>))
             /\ statusText' = report
             /\ IF trim(report) = <<>>
                THEN Return("ok")
                ELSE /\ pc' = "push_stage"
                     /\ UNCHANGED <<outcome, scratch, fs>>
       \/ /\ ops' = Append(ops, Op("status", "error", <<>>))
          /\ Return("err")
          /\ UNCHANGED statusText
    /\ UNCHANGED <<pathVars, escapeVars, passVars, stats, message, config, folderExists,
                   remote, remote0, head>>

\* git add -A (lib.rs:172-179).
PushStageAll ==
    /\ pc = "push_stage"
    /\ \E result \in {"ok", "error"} :
          /\ ops' = Append(ops, Op("add", result, <<>>))
          /\ IF result = "ok"
             THEN /\ pc' = "push_commit"
                  /\ UNCHANGED <<outcome, scratch, fs>>
             ELSE Return("err")
    /\ UNCHANGED <<pathVars, escapeVars, passVars, statusVars, config, folderExists,
                   remote, remote0, head>>

\* The -m arguments without the body.
commit_args_SubjectOnly(msg) == <<msg.subject>>

\* The -m arguments of git commit (lib.rs:185-193).
commit_args(msg) ==
    IF msg.body # <<>> THEN <<msg.subject, msg.body>> ELSE <<msg.subject>>

\* parse_git_status, generate_commit_message and git commit
\* (lib.rs:181-200).  A panic of the classifier unwinds out of run.
PushCommit ==
    /\ pc = "push_commit"
    /\ LET st == parse_git_status(statusText)
       IN  /\ stats' = Some(st)
           /\ IF st.panicked
              THEN /\ Return("panic")
                   /\ UNCHANGED <<message, ops, head>>
              ELSE LET msg == generate_commit_message(st)
                   IN  /\ message' = Some(msg)
                       /\ \E result \in {"ok", "error"} :
                             /\ ops' = Append(ops, Op("commit", result, commit_args(msg)))
                             /\ IF result = "ok"
                                THEN /\ head' = Some([tree |-> WorkTree(fs["stored"]),
                                                      args |-> commit_args(msg)])
                                     /\ pc' = "push_push"
                                     /\ UNCHANGED <<outcome, scratch, fs>>
                                ELSE /\ Return("err")
                                     /\ UNCHANGED head
    /\ UNCHANGED <<pathVars, escapeVars, passVars, statusText, config, folderExists,
                   remote, remote0>>

\* git push origin <branch> (lib.rs:202-212).
PushPush ==
    /\ pc = "push_push"
    /\ \E result \in {"ok", "error"} :
          /\ ops' = Append(ops, Op("push", result, <<>>))
          /\ IF result = "ok"
             THEN /\ remote' = [remote EXCEPT !.branch = Some(Unwrap(head).tree),
                                              !.log = Append(@, Unwrap(head).args)]
                  /\ Return("ok")
             ELSE /\ Return("err")
                  /\ UNCHANGED remote
    /\ UNCHANGED <<pathVars, escapeVars, passVars, statusVars, config, folderExists,
                   remote0, head>>

InitFlow ==
    /\ IdlePath
    /\ IdleEscape
    /\ IdleStatus
    /\ config \in FlowConfigs
    /\ folderExists \in BOOLEAN
    /\ config.folder_path = <<>> => ~folderExists
    /\ \E local \in FlowLocalTrees :
          /\ folderExists \/ local = EmptyTree
          /\ fs = [r \in Roots |-> IF r = LocalRoot(config) THEN local ELSE EmptyTree]
    /\ plan = <<>>
    /\ passNo = 0
    /\ passState = "idle"
    /\ srcRoot = "source"
    /\ dstRoot = "stored"
    /\ transform = "None"
    /\ stack = <<>>
    /\ written = {}
    /\ pc = "run"
    /\ outcome = "running"
    /\ ops = <<>>
    /\ remote \in FlowRemotes
    /\ remote0 = remote
    /\ scratch = "none"
    /\ head = None

NextFlow ==
    \/ Run
    \/ PushResolve
    \/ PullPrepare
    \/ MakeTempDir
    \/ PushCloneBranch
    \/ PushCloneDefault
    \/ PushCreateBranch
    \/ PullCloneBranch
    \/ StartSync
    \/ (SkipEntry /\ UNCHANGED <<pathVars, escapeVars, statusVars, flowVars>>)
    \/ (SyncDir /\ UNCHANGED <<pathVars, escapeVars, statusVars, flowVars>>)
    \/ (SyncFile /\ UNCHANGED <<pathVars, escapeVars, statusVars, flowVars>>)
    \/ (SyncIoError /\ UNCHANGED <<pathVars, escapeVars, statusVars, flowVars>>)
    \/ (FinishPass /\ UNCHANGED <<pathVars, escapeVars, statusVars, flowVars>>)
    \/ PushSyncDone
    \/ PullSyncDone
    \/ PushStatus
    \/ PushStageAll
    \/ PushCommit
    \/ PushPush

SpecFlow == InitFlow /\ [][NextFlow]_vars

--------------------------------------------------------------------------
(* escape_shell_arg and build_git_ssh_command *)

\* The character ` (a string cannot hold it).
Grave == "grave"

\* needs_escape (lib.rs:498)
needs_escape ==
    <<" ", "\t", "\n", "\r", "\"", "'", Grave, "$", "\\", "|", "&", ";", "<",
      ">", "(", ")", "{", "}", "[", "]", "!", "*", "?">>

needs_escape_NoBackslash ==
    <<" ", "\t", "\n", "\r", "\"", "'", Grave, "$", "|", "&", ";", "<", ">",
      "(", ")", "{", "}", "[", "]", "!", "*", "?">>

\* str::contains(char)
contains(text, ch) == \E i \in 1..Len(text) : text[i] = ch

\* The loop of escape_shell_arg with a needs_escape that lacks the backslash.
RECURSIVE escape_shell_arg_NoBackslash(_)
escape_shell_arg_NoBackslash(input) ==
    IF input = <<>> THEN <<>>
    ELSE (IF contains(needs_escape_NoBackslash, Head(input)) THEN <<"\\">> ELSE <<>>)
         \o <<Head(input)>> \o escape_shell_arg_NoBackslash(Tail(input))

\* escape_shell_arg (lib.rs:497-509).  The loop runs over the characters;
\* the bytes of a two-byte character are in no needs_escape and are pushed
\* one after the other.
RECURSIVE escape_shell_arg(_)
escape_shell_arg(input) ==
    IF input = <<>> THEN <<>>
    ELSE (IF contains(needs_escape, Head(input)) THEN <<"\\">> ELSE <<>>)
         \o <<Head(input)>> \o escape_shell_arg(Tail(input))

TxtSshI == <<"s", "s", "h", " ", "-", "i", " ">>
TxtSshOptions ==
    <<" ", "-", "o", " ", "I", "d", "e", "n", "t", "i", "t", "i", "e", "s",
      "O", "n", "l", "y", "=", "y", "e", "s", " ", "-", "o", " ", "S", "t",
      "r", "i", "c", "t", "H", "o", "s", "t", "K", "e", "y", "C", "h", "e",
      "c", "k", "i", "n", "g", "=", "a", "c", "c", "e", "p", "t", "-", "n",
      "e", "w">>

\* build_git_ssh_command (lib.rs:511-516)
build_git_ssh_command(key_path) == TxtSshI \o escape_shell_arg(key_path) \o TxtSshOptions

MaxKeyLen == 2

\* The characters of a key path: every character of needs_escape, two plain
\* ones and a two-byte character.
KeyChars == {needs_escape[i] : i \in 1..Len(needs_escape)} \cup {"a", "/", LeadByte, ContByte}

KeyPaths == {k \in SeqsUpTo(KeyChars, MaxKeyLen) : IsUtf8(k)}

InitEscape ==
    /\ IdlePath
    /\ IdleSync
    /\ IdleStatus
    /\ IdleFlow
    /\ ssh_key_path \in KeyPaths
    /\ escaped = None
    /\ gitSshCommand = None

EscapeArg ==
    /\ escaped = None
    /\ escaped' = Some(escape_shell_arg(ssh_key_path))
    /\ UNCHANGED <<ssh_key_path, gitSshCommand, pathVars, syncVars, statusVars, flowVars>>

\* run_command sets GIT_SSH_COMMAND to it (lib.rs:530-532).
BuildSshCommand ==
    /\ gitSshCommand = None
    /\ gitSshCommand' = Some(build_git_ssh_command(ssh_key_path))
    /\ UNCHANGED <<ssh_key_path, escaped, pathVars, syncVars, statusVars, flowVars>>

NextEscape == EscapeArg \/ BuildSshCommand

SpecEscape == InitEscape /\ [][NextEscape]_vars

--------------------------------------------------------------------------
(* Claims *)

\* The last component of the path ends with the reserved suffix, byte for byte.
CarriesSuffix(path) == path # <<>> /\ EndsWith(path[Len(path)], GZIP_SUFFIX)

\* Two paths agree on every component but the last.
SameDirectories(p, q) ==
    /\ Len(p) = Len(q)
    /\ \A i \in 1..(Len(p) - 1) : p[i] = q[i]

\* C1: for every relative path whose file name does not carry the reserved
\* suffix, decompressing the compressed path gives the path back, and
\* compressing changed nothing but the final component.
C1_RoundTrip ==
    ~CarriesSuffix(relPath) =>
        /\ IsSome(storedPath) => SameDirectories(relPath, Unwrap(storedPath))
        /\ IsSome(restoredPath) => Unwrap(restoredPath) = relPath

C1_Witness ==
    /\ ~CarriesSuffix(relPath)
    /\ Len(relPath) = 2
    /\ IsSome(restoredPath)
    /\ Unwrap(storedPath) # relPath
    /\ Unwrap(restoredPath) = relPath

\* The path lies in (or is) the metadata directory at the top of the tree.
FirstSegmentIsGit(path) == path # <<>> /\ path[1] = GIT_DIR

\* The files of a tree that the walk yields: those not under a top-level .git.
WalkedFiles(tree) == {q \in DOMAIN tree : IsFile(tree, q) /\ ~FirstSegmentIsGit(q)}

\* The path with the suffix appended to its last component.
WithSuffix(path) == Append(parent(path), path[Len(path)] \o GZIP_SUFFIX)

\* C2 (as claimed): in a Compress pass a source file whose name already
\* carries the reserved suffix is stored at its own path, not suffixed again.
C2_NoDoubleSuffix ==
    transform = "Compress" =>
        \A w \in written :
            (IsFile(fs[srcRoot], w.from) /\ CarriesSuffix(w.from)) => w.to = w.from

\* C2 (amended): in a Compress pass a source file whose name already carries
\* the reserved suffix gets the suffix appended once more, like any other
\* file, and is stored at that path; only a name that is not valid UTF-8 is
\* stored under its own name.
C2_SuffixAppendedAgain ==
    transform = "Compress" =>
        \A w \in written :
            (IsFile(fs[srcRoot], w.from) /\ CarriesSuffix(w.from)) =>
                /\ w.to = IF IsUtf8(w.from[Len(w.from)]) THEN WithSuffix(w.from) ELSE w.from
                /\ IsFile(fs[dstRoot], w.to)

C2_Witness ==
    /\ transform = "Compress"
    /\ passState = "ok"
    /\ \E w \in written :
          /\ IsFile(fs[srcRoot], w.from)
          /\ w.from = <<(<<"a">> \o GZIP_SUFFIX)>>
          /\ w.to = <<(<<"a">> \o GZIP_SUFFIX \o GZIP_SUFFIX)>>

\* A source entry below a directory named .git that is not the first segment.
UnderNestedGit(path) ==
    /\ ~FirstSegmentIsGit(path)
    /\ \E i \in 2..(Len(path) - 1) : path[i] = GIT_DIR

\* C3: under every mode a pass writes nothing for a source path whose first
\* segment is .git, whatever its depth, and a pass that returns Ok has written
\* every entry below a .git directory that is not the first segment.
C3_GitSkippedOnlyAtTop ==
    /\ \A w \in written : ~FirstSegmentIsGit(w.from)
    /\ passState = "ok" =>
          \A q \in DOMAIN fs[srcRoot] :
              UnderNestedGit(q) =>
                  \E w \in written :
                      /\ w.from = q
                      /\ w.to = IF IsDir(fs[srcRoot], q) THEN q ELSE target_rel(q, transform)
                      /\ Exists(fs[dstRoot], w.to)
                      /\ fs[dstRoot][w.to].kind = fs[srcRoot][q].kind

C3_Witness ==
    /\ passState = "ok"
    /\ \E q \in DOMAIN fs[srcRoot] :
          /\ UnderNestedGit(q)
          /\ IsFile(fs[srcRoot], q)
          /\ \E w \in written : w.from = q /\ IsFile(fs[dstRoot], w.to)

\* C4 (as claimed): after a Compress pass into an empty directory and a
\* Decompress pass from it into another empty directory, every source file
\* (every file the walk yields) is there at its original path with exactly
\* its original bytes, and no other file, such as one under a name with the
\* added suffix, is left.
C4_RoundTripExact ==
    (passNo = 2 /\ passState = "ok") =>
        /\ \A q \in WalkedFiles(fs["source"]) :
              /\ IsFile(fs["restored"], q)
              /\ fs["restored"][q].data = fs["source"][q].data
        /\ \A q \in DOMAIN fs["restored"] :
              IsFile(fs["restored"], q) => q \in WalkedFiles(fs["source"])

\* What the round trip does give: original bytes for the files whose names
\* are valid UTF-8, the gzip stream for the others.
RoundTripByName ==
    (passNo = 2 /\ passState = "ok") =>
        /\ \A q \in WalkedFiles(fs["source"]) :
              /\ IsFile(fs["restored"], q)
              /\ fs["restored"][q].data =
                    IF IsUtf8(q[Len(q)]) THEN fs["source"][q].data
                    ELSE GzEncode(fs["source"][q].data)
        /\ \A q \in DOMAIN fs["restored"] :
              IsFile(fs["restored"], q) => q \in WalkedFiles(fs["source"])

--------------------------------------------------------------------------
(* The line grammar of the status report, by characters *)

\* The characters of a text, each the sequence of its bytes.
RECURSIVE Chars(_)
Chars(s) ==
    IF s = <<>> THEN <<>>
    ELSE IF Head(s) = LeadByte THEN <<SubSeq(s, 1, 2)>> \o Chars(Drop(s, 3))
    ELSE <<<<Head(s)>>>> \o Chars(Tail(s))

RECURSIVE Flatten(_)
Flatten(seqs) == IF seqs = <<>> THEN <<>> ELSE Head(seqs) \o Flatten(Tail(seqs))

\* The lines of a report, split off from its end.
RECURSIVE GrammarLines(_)
GrammarLines(text) ==
    IF \A i \in 1..Len(text) : text[i] # "\n" THEN <<text>>
    ELSE LET last == CHOOSE i \in 1..Len(text) :
                        text[i] = "\n" /\ \A j \in (i + 1)..Len(text) : text[j] # "\n"
         IN  Append(GrammarLines(SubSeq(text, 1, last - 1)), Drop(text, last + 1))

\* The text after the first " -> " of a path, or the whole path.
AfterArrow(path) ==
    LET starts == {i \in 1..Len(path) : i + 3 <= Len(path) /\ SubSeq(path, i, i + 3) = RenameArrow}
    IN  IF starts = {} THEN path
        ELSE LET first == CHOOSE i \in starts : \A j \in starts : i <= j
             IN  Drop(path, first + 4)

\* What one line contributes: the list it goes to and the path, or nothing.
GrammarEntry(line) ==
    LET cs == Chars(line)
        code == IF Len(cs) >= 2 THEN cs[1] \o cs[2] ELSE <<>>
        text == IF Len(cs) >= 3 THEN Flatten(SubSeq(cs, 4, Len(cs))) ELSE <<>>
    IN  IF Len(cs) < 3 THEN [list |-> "none", path |-> <<>>]
        ELSE IF code = <<"A", " ">> \/ code = <<"?", "?">> THEN [list |-> "added", path |-> text]
        ELSE IF code = <<"M", " ">> \/ code = <<" ", "M">> \/ code = <<"M", "M">>
             THEN [list |-> "modified", path |-> text]
        ELSE IF code = <<"D", " ">> \/ code = <<" ", "D">> THEN [list |-> "deleted", path |-> text]
        ELSE IF cs[1] = <<"R">> THEN [list |-> "modified", path |-> AfterArrow(text)]
        ELSE [list |-> "none", path |-> <<>>]

\* The paths a report contributes to one list, in report order.
GrammarList(text, list) ==
    LET lines == GrammarLines(text)
        hits == SelectSeq(lines, LAMBDA l : GrammarEntry(l).list = list)
    IN  [i \in 1..Len(hits) |-> GrammarEntry(hits[i]).path]

\* C5 (as claimed): for every status report parse_git_status returns the
\* three lists the line grammar gives, each in report order.
C5_ParseMatchesGrammar ==
    IsSome(stats) =>
        /\ ~Unwrap(stats).panicked
        /\ Unwrap(stats).added = GrammarList(statusText, "added")
        /\ Unwrap(stats).modified = GrammarList(statusText, "modified")
        /\ Unwrap(stats).deleted = GrammarList(statusText, "deleted")

\* What parse_git_status does give: the grammar's lists on every report it
\* does not panic on.
ParseMatchesGrammarUnlessPanic ==
    (IsSome(stats) /\ ~Unwrap(stats).panicked) =>
        /\ Unwrap(stats).added = GrammarList(statusText, "added")
        /\ Unwrap(stats).modified = GrammarList(statusText, "modified")
        /\ Unwrap(stats).deleted = GrammarList(statusText, "deleted")

--------------------------------------------------------------------------
(* The commit message, as the claims describe it *)

\* A count below 100 in decimal.
TwoDigits(n) ==
    IF n < 10 THEN <<DigitChars[n + 1]>>
    ELSE <<DigitChars[(n \div 10) + 1], DigitChars[(n % 10) + 1]>>

CountOf(list, label) == TwoDigits(Len(list)) \o <<" ">> \o label

\* The parenthesized summary: the non-empty lists' counts, in the fixed order.
Summary(st) ==
    LET a == CountOf(st.added, <<"a", "d", "d", "e", "d">>)
        m == CountOf(st.modified, <<"m", "o", "d", "i", "f", "i", "e", "d">>)
        d == CountOf(st.deleted, <<"d", "e", "l", "e", "t", "e", "d">>)
        c == <<",", " ">>
        ne(list) == list # <<>>
    IN  CASE ne(st.added) /\ ne(st.modified) /\ ne(st.deleted) -> a \o c \o m \o c \o d
          [] ne(st.added) /\ ne(st.modified) /\ ~ne(st.deleted) -> a \o c \o m
          [] ne(st.added) /\ ~ne(st.modified) /\ ne(st.deleted) -> a \o c \o d
          [] ~ne(st.added) /\ ne(st.modified) /\ ne(st.deleted) -> m \o c \o d
          [] ne(st.added) /\ ~ne(st.modified) /\ ~ne(st.deleted) -> a
          [] ~ne(st.added) /\ ne(st.modified) /\ ~ne(st.deleted) -> m
          [] ~ne(st.added) /\ ~ne(st.modified) /\ ne(st.deleted) -> d
          [] OTHER -> <<>>

ExpectedSubject(st) ==
    LET n == Len(st.added) + Len(st.modified) + Len(st.deleted)
    IN  <<"S", "y", "n", "c", " ">> \o TwoDigits(n) \o <<" ", "f", "i", "l", "e">>
            \o (IF n = 1 THEN <<>> ELSE <<"s">>)
            \o (IF n = 0 THEN <<>> ELSE <<" ", "(">> \o Summary(st) \o <<")">>)

\* C6: the subject is "Sync N file", N the total of the three lists, "s"
\* appended exactly when N # 1, then, only when some list is non-empty, a
\* space and the parenthesized ", "-joined counts of the non-empty lists in
\* the order added, modified, deleted.
C6_Subject ==
    IsSome(message) => Unwrap(message).subject = ExpectedSubject(Unwrap(stats))

C6_Witness ==
    /\ IsSome(message)
    /\ Len(Unwrap(stats).added) + Len(Unwrap(stats).modified) + Len(Unwrap(stats).deleted) >= 10
    /\ Len(Unwrap(stats).modified) = 2
    /\ Unwrap(message).subject = ExpectedSubject(Unwrap(stats))

\* One section: its label line, then each path on a line of its own.
Section(label, mark, files) ==
    join(<<label>> \o [i \in 1..Len(files) |-> <<" ", " ", mark, " ">> \o files[i]], <<"\n">>)

ExpectedBody(st) ==
    LET sections ==
            (IF st.added # <<>>
             THEN <<Section(<<"A", "d", "d", "e", "d", " ", "f", "i", "l", "e", "s", ":">>, "+", st.added)>>
             ELSE <<>>)
         \o (IF st.modified # <<>>
             THEN <<Section(<<"M", "o", "d", "i", "f", "i", "e", "d", " ", "f", "i", "l", "e", "s", ":">>,
                            "~", st.modified)>>
             ELSE <<>>)
         \o (IF st.deleted # <<>>
             THEN <<Section(<<"D", "e", "l", "e", "t", "e", "d", " ", "f", "i", "l", "e", "s", ":">>,
                            "-", st.deleted)>>
             ELSE <<>>)
    IN  join(sections, <<"\n", "\n">>)

\* C7 (as claimed): the body is one labeled section per non-empty list, in
\* the order Added, Modified, Deleted, every path verbatim on a line of its
\* own behind its mark, one blank line between sections, none before or
\* after; it is empty exactly when the three lists are.
C7_Body ==
    IsSome(message) =>
        /\ Unwrap(message).body = ExpectedBody(Unwrap(stats))
        /\ (Unwrap(message).body = <<>>) <=>
              (Unwrap(stats).added = <<>> /\ Unwrap(stats).modified = <<>>
                  /\ Unwrap(stats).deleted = <<>>)

--------------------------------------------------------------------------
(* C8 - C10: the PUSH and PULL flows *)

Invoked(name) == \E i \in 1..Len(ops) : ops[i].op = name

Succeeded(name) == \E i \in 1..Len(ops) : ops[i].op = name /\ ops[i].result = "ok"

CountInvoked(name) == Cardinality({i \in 1..Len(ops) : ops[i].op = name})

\* C8: in a PUSH whose status report, taken after the pipeline, is empty,
\* the invocation has ended with success, none of stageAll, commit, push was
\* invoked, no commit exists and the remote is what it was.
C8_EmptyStatusIsNoOp ==
    (config.mode = "Push" /\ Succeeded("status") /\ statusText = <<>>) =>
        /\ pc = "done"
        /\ outcome = "ok"
        /\ ~Invoked("add")
        /\ ~Invoked("commit")
        /\ ~Invoked("push")
        /\ head = None
        /\ remote = remote0

\* A PUSH that mirrored a file into the clone, got an empty report and ended.
C8_Witness ==
    /\ config.mode = "Push"
    /\ Succeeded("status")
    /\ statusText = <<>>
    /\ outcome = "ok"
    /\ \E w \in written : IsFile(fs["source"], w.from)

\* The commands of a way to obtain the clone: the branch clone, or the
\* failed branch clone followed by the default clone and the new branch.
CloneSteps ==
    {<<Op("clone_branch", "ok", <<>>)>>} \cup
    {<<Op("clone_branch", why, <<>>), Op("clone_default", "ok", <<>>),
       Op("create_branch", "ok", <<>>)>> : why \in {"not_found", "error"}}

\* The message of a commit made with the given -m arguments.
SubjectOfCommit(args) == args[1]
BodyOfCommit(args) == IF Len(args) > 1 THEN args[2] ELSE <<>>

\* The whole run was: clone, pipeline, status, stageAll, one commit with
\* the message built from the report, one push of that commit.
CommittedAndPushedOnce ==
    \E cloned \in CloneSteps, args \in {<<x>> : x \in {ops[i].args : i \in 1..Len(ops)}} :
        LET msg == generate_commit_message(parse_git_status(statusText))
        IN  /\ ops = cloned \o <<Op("sync", "ok", <<>>), Op("status", "ok", <<>>),
                                 Op("add", "ok", <<>>), Op("commit", "ok", args[1]),
                                 Op("push", "ok", <<>>)>>
            /\ SubjectOfCommit(args[1]) = msg.subject
            /\ BodyOfCommit(args[1]) = msg.body
            /\ remote.log = Append(remote0.log, args[1])

\* C9: a successful PUSH whose status report is not empty ran
\* clone, pipeline, status, stageAll, commit, push in this order, with one
\* commit and one push, the commit carrying the message built from the report.
C9_NonEmptyStatusCommitsOnce ==
    (config.mode = "Push" /\ outcome = "ok" /\ statusText # <<>>) =>
        CommittedAndPushedOnce

\* A successful PUSH through the fallback whose commit has a body.
C9_Witness ==
    /\ config.mode = "Push"
    /\ outcome = "ok"
    /\ statusText # <<>>
    /\ Succeeded("create_branch")
    /\ Succeeded("push")
    /\ IsSome(head)
    /\ Len(Unwrap(head).args) = 2

\* C10: a PULL runs no git command but the branch clone, once; it makes no
\* commit and leaves the remote as it was; when the clone failed the
\* pipeline never started, nothing was written and the invocation failed.
C10_PullOnlyClones ==
    config.mode = "Pull" =>
        /\ \A i \in 1..Len(ops) : ops[i].op \in {"clone_branch", "sync"}
        /\ CountInvoked("clone_branch") <= 1
        /\ head = None
        /\ remote = remote0
        /\ (Invoked("clone_branch") /\ ~Succeeded("clone_branch")) =>
              /\ pc = "done"
              /\ outcome = "err"
              /\ passState = "idle"
              /\ written = {}
              /\ ~Invoked("sync")

\* A PULL of a branch the remote does not have.
C10_Witness ==
    /\ config.mode = "Pull"
    /\ ops = <<Op("clone_branch", "not_found", <<>>)>>
    /\ outcome = "err"

--------------------------------------------------------------------------
(* C11 - C13: failures in the flows *)

\* C11 (as claimed): a PUSH clones the default branch only after a branch
\* clone that reported branch-not-found; after a branch clone that failed
\* otherwise the invocation has returned an error and ran no other command.
C11_FallbackOnlyOnNotFound ==
    (config.mode = "Push" /\ ops # <<>>) =>
        /\ Invoked("clone_default") => ops[1].result = "not_found"
        /\ ops[1].result = "error" =>
              /\ Len(ops) = 1
              /\ pc = "done"
              /\ outcome = "err"

\* Steps that fail without running a git command leave their mark in the
\* state: a missing folder stops a PUSH before the scratch directory, a
\* failed pass stops the flow before status.
FailedStepEndsFlow ==
    /\ (config.mode = "Push" /\ ~folderExists) => (ops = <<>> /\ scratch = "none")
    /\ passState = "failed" =>
          /\ ops[Len(ops)].op \in {"clone_branch", "create_branch"}
          /\ pc = "done" => outcome = "err"
    /\ outcome = "err" => pc = "done"

\* C12 (as claimed): in both flows a failed step is the last step: a git
\* command that returned an error is the last command run and the
\* invocation has returned an error; so no commit follows a failed stageAll
\* and no push a failed commit.
C12_AbortOnFirstFailure ==
    /\ FailedStepEndsFlow
    /\ \A i \in 1..Len(ops) :
          ops[i].result = "error" =>
              /\ i = Len(ops)
              /\ pc = "done"
              /\ outcome = "err"

\* The same with the branch clone of a PUSH set apart: every other failed
\* command is the last one, and the failed branch clone is followed by
\* nothing but the default clone.
AbortOnFailureAfterClone ==
    /\ FailedStepEndsFlow
    /\ \A i \in 1..Len(ops) :
          ops[i].result # "ok" =>
              IF config.mode = "Push" /\ ops[i].op = "clone_branch"
              THEN i = 1 /\ (Len(ops) > 1 => ops[2].op = "clone_default")
              ELSE i = Len(ops) /\ pc = "done" /\ outcome = "err"

--------------------------------------------------------------------------
(* C14: validate_config *)

\* run returned a configuration error and did nothing else.
FailsAtOnce ==
    /\ pc' = "done"
    /\ outcome' = "err"
    /\ scratch' = "none"
    /\ ops' = <<>>
    /\ fs' = fs
    /\ remote' = remote

\* run went on to the flow of its mode.
PassesValidation ==
    /\ pc' = IF config.mode = "Push" THEN "push_resolve" ELSE "pull_prepare"
    /\ outcome' = "running"

\* C14 (as claimed): run fails at once, before a scratch directory, a git
\* command or a write, when the folder path or the repository URL is empty,
\* and passes validation when both are non-empty, in either mode.
C14_EmptyFieldsRejected ==
    [][pc = "run" =>
          IF config.folder_path = <<>> \/ config.repo_url = <<>>
          THEN FailsAtOnce
          ELSE PassesValidation]_vars

OnlyWhiteSpace(text) == \A i \in 1..Len(text) : text[i] \in {" ", "\t", "\n", "\r"}

\* C14 (amended): run fails at once when the folder path is empty or the
\* repository URL is empty or all white space, and passes validation when
\* the folder path is non-empty and the URL holds a character that is not
\* white space, in either mode.
C14_BlankFieldsRejected ==
    [][pc = "run" =>
          IF config.folder_path = <<>> \/ OnlyWhiteSpace(config.repo_url)
          THEN FailsAtOnce
          ELSE PassesValidation]_vars

\* run has rejected a folder path together with a URL of one space.
C14_Witness ==
    /\ config.folder_path # <<>>
    /\ config.repo_url = <<" ">>
    /\ pc = "done"
    /\ outcome = "err"
    /\ ops = <<>>
    /\ scratch = "none"

--------------------------------------------------------------------------
(* C15: escape_shell_arg and build_git_ssh_command *)

\* The escape set: space, tab, newline, carriage return, double quote,
\* apostrophe, backtick, $, backslash, |, &, ;, <, >, (, ), {, }, [, ], !, *, ?
EscapeSet ==
    {" ", "\t", "\n", "\r", "\"", "'", Grave, "$", "\\", "|", "&", ";",
     "<", ">", "(", ")", "{", "}", "[", "]", "!", "*", "?"}

\* Where the i-th byte of the input stands in the output: behind the bytes
\* before it and one backslash for each byte of the escape set up to it.
PlaceOf(input, i) == i + Cardinality({j \in 1..i : input[j] \in EscapeSet})

\* The output holds the bytes of the input in order, a backslash before
\* each one of the escape set, and nothing else.
IsEscapeOf(output, input) ==
    /\ Len(output) = PlaceOf(input, Len(input))
    /\ \A i \in 1..Len(input) :
          /\ output[PlaceOf(input, i)] = input[i]
          /\ input[i] \in EscapeSet => output[PlaceOf(input, i) - 1] = "\\"

\* The text without the backslash that precedes each escaped character.
RECURSIVE Unescape(_)
Unescape(text) ==
    IF text = <<>> THEN <<>>
    ELSE IF Head(text) = "\\" /\ Len(text) >= 2 /\ text[2] \in EscapeSet
         THEN <<text[2]>> \o Unescape(Tail(Tail(text)))
         ELSE <<Head(text)>> \o Unescape(Tail(text))

SshBefore == <<"s", "s", "h", " ", "-", "i", " ">>
SshAfter ==
    <<" ", "-", "o", " ", "I", "d", "e", "n", "t", "i", "t", "i", "e", "s",
      "O", "n", "l", "y", "=", "y", "e", "s", " ", "-", "o", " ", "S", "t",
      "r", "i", "c", "t", "H", "o", "s", "t", "K", "e", "y", "C", "h", "e",
      "c", "k", "i", "n", "g", "=", "a", "c", "c", "e", "p", "t", "-", "n",
      "e", "w">>

\* C15: for every key path escape_shell_arg returns the input with one
\* backslash before each character of the escape set and nothing else
\* changed, removing those backslashes gives the input back, and
\* build_git_ssh_command returns that text between "ssh -i " and
\* " -o IdentitiesOnly=yes -o StrictHostKeyChecking=accept-new".
C15_Escape ==
    /\ IsSome(escaped) =>
          /\ IsEscapeOf(Unwrap(escaped), ssh_key_path)
          /\ Unescape(Unwrap(escaped)) = ssh_key_path
    /\ IsSome(gitSshCommand) =>
          LET command == Unwrap(gitSshCommand)
              middle == SubSeq(command, Len(SshBefore) + 1, Len(command) - Len(SshAfter))
          IN  /\ command = SshBefore \o middle \o SshAfter
              /\ IsEscapeOf(middle, ssh_key_path)

\* A key path of a backslash and a space, escaped and built into a command.
C15_Witness ==
    /\ ssh_key_path = <<"\\", " ">>
    /\ escaped = Some(<<"\\", "\\", "\\", " ">>)
    /\ IsSome(gitSshCommand)

--------------------------------------------------------------------------
(* C16: the count of a commit's message *)

\* C16 (as claimed): in a PUSH the message builder is reached, and a commit
\* made, only with a record that lists at least one path.
C16_CommitCountsChanges ==
    (config.mode = "Push" /\ (IsSome(message) \/ Invoked("commit"))) =>
        /\ IsSome(stats)
        /\ Len(Unwrap(stats).added) + Len(Unwrap(stats).modified)
              + Len(Unwrap(stats).deleted) >= 1

--------------------------------------------------------------------------
(* C17: the destinations of one pass *)

\* The writes of the pass whose source is a file.
FileWrites == {w \in written : IsFile(fs[srcRoot], w.from)}

NoSharedTarget ==
    \A w1 \in FileWrites, w2 \in FileWrites : w1.from # w2.from => w1.to # w2.to

\* C17 (as claimed): in a pass of any mode no two distinct source files are
\* written to the same destination path.
C17_InjectiveTargets == NoSharedTarget

\* The same of the passes that do not decompress.
InjectiveUnlessDecompress == transform # "Decompress" => NoSharedTarget

--------------------------------------------------------------------------
(* C18: the three lists of a ChangeRecord *)

AllListed(st) == st.added \o st.modified \o st.deleted

NoPathTwice(paths) ==
    \A i \in 1..Len(paths), j \in 1..Len(paths) : i # j => paths[i] # paths[j]

\* The paths of the lines of a report that go to some list, in report order.
ClassifiedPaths(text) ==
    LET hits == SelectSeq(GrammarLines(text), LAMBDA l : GrammarEntry(l).list # "none")
    IN  [i \in 1..Len(hits) |-> GrammarEntry(hits[i]).path]

Occurrences(paths, p) == Cardinality({i \in 1..Len(paths) : paths[i] = p})

\* C18 (as claimed): for every status report, no path is in two of the
\* lists added, modified, deleted, nor twice in one.
C18_DisjointLists ==
    (IsSome(stats) /\ ~Unwrap(stats).panicked) => NoPathTwice(AllListed(Unwrap(stats)))

\* C18 (amended): every classified line of the report puts its path once
\* in one list; so the lists are disjoint, with no path twice, for every
\* report whose classified lines name different paths.
C18_DisjointWhenPathsDiffer ==
    (IsSome(stats) /\ ~Unwrap(stats).panicked) =>
        LET listed == AllListed(Unwrap(stats))
            named == ClassifiedPaths(statusText)
        IN  /\ \A p \in {named[i] : i \in 1..Len(named)} \cup {listed[i] : i \in 1..Len(listed)} :
                  Occurrences(listed, p) = Occurrences(named, p)
            /\ NoPathTwice(named) => NoPathTwice(listed)

\* A report of two classified lines with different paths, for two lists.
C18_Witness ==
    /\ IsSome(stats)
    /\ ~Unwrap(stats).panicked
    /\ Len(Unwrap(stats).modified) = 1
    /\ Len(Unwrap(stats).deleted) = 1
    /\ Unwrap(stats).modified # Unwrap(stats).deleted

--------------------------------------------------------------------------
(* C19: what a pass leaves alone *)

FilesOf(tree) == {q \in DOMAIN tree : tree[q].kind = "file"}

\* The destination paths of the files of a tree under a mode.
TargetsOf(tree, mode) == {target_rel(q, mode) : q \in FilesOf(tree)}

\* Every entry of `before` is in `after` with its kind, and every file of
\* `before` outside `targets` with its bytes.
KeepsAllBut(before, after, targets) ==
    \A q \in DOMAIN before :
        /\ q \in DOMAIN after
        /\ after[q].kind = before[q].kind
        /\ (before[q].kind = "file" /\ q \notin targets) => after[q] = before[q]

\* A step of a pass keeps the destination but for the targets of the
\* source files.
PassKeepsDestination ==
    passState = "walking" =>
        KeepsAllBut(fs[dstRoot], fs'[dstRoot], TargetsOf(fs[srcRoot], transform))

\* The files the clone of a PUSH started with.
ClonedTree ==
    IF Succeeded("clone_branch") THEN Unwrap(remote0.branch) ELSE remote0.default

\* The commit of a PUSH, and the branch it is pushed to, hold every file the
\* clone started with, unchanged unless a local file is written to its path.
PushKeepsRemoteFiles ==
    LET targets == TargetsOf(fs["source"], IF config.compress THEN "Compress" ELSE "None")
    IN  /\ (config.mode = "Push" /\ IsSome(head)) =>
              KeepsAllBut(ClonedTree, Unwrap(head).tree, targets)
        /\ (config.mode = "Push" /\ Succeeded("push")) =>
              KeepsAllBut(ClonedTree, Unwrap(remote.branch), targets)

\* C19: no step of a pass deletes a destination entry or changes a
\* destination file that is not the target of a source file; so the commit
\* and the pushed branch of a PUSH keep the remote's files that the local
\* tree does not have, and a PULL keeps the local files the remote does
\* not have.
C19_PassOnlyWritesTargets ==
    [][PassKeepsDestination /\ PushKeepsRemoteFiles']_vars

\* A PUSH that wrote a local file and pushed a branch that still holds a
\* file of the remote that no local file is written to.
C19_Witness ==
    /\ config.mode = "Push"
    /\ Succeeded("push")
    /\ \E w \in written : IsFile(fs["source"], w.from)
    /\ \E q \in FilesOf(ClonedTree) :
          /\ q \notin TargetsOf(fs["source"], IF config.compress THEN "Compress" ELSE "None")
          /\ Unwrap(remote.branch)[q] = ClonedTree[q]

\* A PULL that ended well with a local file the clone has nothing for.
PullKeptLocalFile ==
    /\ config.mode = "Pull"
    /\ outcome = "ok"
    /\ \E w \in written : w.from # w.to
    /\ \E q \in FilesOf(fs["restored"]) : q \notin {w.to : w \in written}

==========================================================================
